---- MODULE Spec2Model ----
(***************************************************************************)
(* Model of the Input/Converter field-binding framework of                 *)
(* owrx/form/__init__.py.                                                  *)
(*                                                                         *)
(* Python values are tagged records; a Python str is a sequence of         *)
(* one-character strings, so that formatting, splitting, stripping and     *)
(* numeric parsing are computed character by character.  A raised          *)
(* exception is the value Raise(kind), which every caller propagates.      *)
(***************************************************************************)
EXTENDS Integers, Sequences, FiniteSets, TLC

VARIABLES
    inp,      \* the Input object of the form schema (None before construction)
    made,     \* the Input exactly as its constructor returned it
    given,    \* the argument of the last call, as the caller passed it
    arg,      \* the same argument object after the call returned
    result,   \* what the last call returned (or raised)
    op,       \* name of the last operation on the Input
    page,     \* the config and markup of the page awaiting submission, or None
    gkey,     \* Config.get()["google_maps_api_key"], the ambient global
    conv,     \* the Converter under test
    cval,     \* the value last passed to convert_to_form
    cform,    \* what convert_to_form returned, or the text submitted
    cback,    \* what convert_from_form returned
    cop       \* name of the last Converter operation

vars == <<inp, made, given, arg, result, op, page, gkey, conv, cval, cform, cback, cop>>

formVars == <<inp, made, given, arg, result, op, page, gkey>>

convVars == <<conv, cval, cform, cback, cop>>

----------------------------------------------------------------------------
(* Bounds of the model *)

\* integers held by numeric fields range over -MaxInt..MaxInt
MaxInt == 12

\* longest receiver key list
MaxKeys == 2

\* floats are m * 10^e with |m| <= MaxMantissa
MaxMantissa == 25

\* coordinates of a location are 5 * m * 10^e with |m| <= MaxCoord
MaxCoord == 3

\* longest option list of a MultiCheckboxInput
MaxOptions == 3

----------------------------------------------------------------------------
(* Python values *)

None == [t |-> "None"]

Bool(b) == [t |-> "bool", b |-> b]

Str(s) == [t |-> "str", s |-> s]

Integer(i) == [t |-> "int", i |-> i]

\* a finite float m * 10^e, kept normalised: m = 0 => e = 0, else 10 does not divide m
Float(m, e) == [t |-> "float", m |-> m, e |-> e]

List(l) == [t |-> "list", l |-> l]

Dict(d) == [t |-> "dict", d |-> d]

Raise(kind) == [t |-> "raise", exc |-> kind]

IsRaise(v) == v.t = "raise"

EmptyDict == [k \in {} |-> None]

\* the dict literal {k: v}
Dict1(k, v) == [x \in {k} |-> v]

\* Python truthiness of the values the model uses
Truthy(v) ==
    CASE v.t = "None" -> FALSE
      [] v.t = "bool" -> v.b
      [] v.t = "str" -> v.s # <<>>
      [] v.t = "int" -> v.i # 0
      [] v.t = "float" -> v.m # 0
      [] v.t = "list" -> v.l # <<>>
      [] v.t = "dict" -> DOMAIN v.d # {}
      [] OTHER -> TRUE

----------------------------------------------------------------------------
(* str(), int() and float() of the Python runtime *)

Digits == <<"0", "1", "2", "3", "4", "5", "6", "7", "8", "9">>

DigitChars == {Digits[i] : i \in 1..10}

DigitVal(c) == (CHOOSE i \in 1..10 : Digits[i] = c) - 1

Whitespace == {" ", "\t", "\n", "\r"}

Abs(n) == IF n < 0 THEN -n ELSE n

RECURSIVE NatStr(_)
NatStr(n) == IF n < 10 THEN <<Digits[n + 1]>> ELSE NatStr(n \div 10) \o <<Digits[(n % 10) + 1]>>

IntStr(i) == IF i < 0 THEN <<"-">> \o NatStr(-i) ELSE NatStr(i)

RECURSIVE Pow10(_)
Pow10(n) == IF n = 0 THEN 1 ELSE 10 * Pow10(n - 1)

RECURSIVE Zeros(_)
Zeros(n) == IF n <= 0 THEN <<>> ELSE <<"0">> \o Zeros(n - 1)

\* repr of the digits ds of a non-zero mantissa scaled by 10^e: fixed notation
\* while the decimal exponent X of the leading digit satisfies -4 <= X < 16,
\* scientific notation otherwise
DigitsRepr(ds, e) ==
    LET n == Len(ds)
        X == n + e - 1
    IN IF X >= -4 /\ X < 16
       THEN IF e >= 0 THEN ds \o Zeros(e) \o <<".","0">>
            ELSE IF n + e > 0 THEN SubSeq(ds, 1, n + e) \o <<".">> \o SubSeq(ds, n + e + 1, n)
            ELSE <<"0",".">> \o Zeros(-(n + e)) \o ds
       ELSE (IF n = 1 THEN ds ELSE <<ds[1]>> \o <<".">> \o SubSeq(ds, 2, n))
                \o <<"e">> \o (IF X < 0 THEN <<"-">> ELSE <<"+">>)
                \o (IF Abs(X) < 10 THEN <<"0">> ELSE <<>>) \o NatStr(Abs(X))

\* repr of a finite float
FloatStr(m, e) ==
    IF m = 0 THEN <<"0",".","0">>
    ELSE (IF m < 0 THEN <<"-">> ELSE <<>>) \o DigitsRepr(NatStr(Abs(m)), e)

\* str(value), which "{value}".format(value=value) also produces for these types
PyStr(v) ==
    CASE v.t = "None" -> <<"N","o","n","e">>
      [] v.t = "bool" -> IF v.b THEN <<"T","r","u","e">> ELSE <<"F","a","l","s","e">>
      [] v.t = "str" -> v.s
      [] v.t = "int" -> IntStr(v.i)
      [] v.t = "float" -> FloatStr(v.m, v.e)

RECURSIVE LStrip(_, _)
LStrip(s, cs) == IF s # <<>> /\ Head(s) \in cs THEN LStrip(Tail(s), cs) ELSE s

RECURSIVE RStrip(_, _)
RStrip(s, cs) ==
    IF s # <<>> /\ s[Len(s)] \in cs THEN RStrip(SubSeq(s, 1, Len(s) - 1), cs) ELSE s

\* str.strip(chars)
Strip(s, cs) == RStrip(LStrip(s, cs), cs)

AllDigits(s) == s # <<>> /\ \A i \in 1..Len(s) : s[i] \in DigitChars

RECURSIVE DigitsVal(_)
DigitsVal(s) == IF s = <<>> THEN 0 ELSE 10 * DigitsVal(SubSeq(s, 1, Len(s) - 1)) + DigitVal(s[Len(s)])

\* the text after an optional sign
Unsigned(s) == IF s # <<>> /\ Head(s) \in {"+", "-"} THEN Tail(s) ELSE s

SignOf(s) == IF s # <<>> /\ Head(s) = "-" THEN -1 ELSE 1

\* int(x)
PyInt(v) ==
    CASE v.t = "int" -> v
      [] v.t = "bool" -> Integer(IF v.b THEN 1 ELSE 0)
      [] v.t = "float" -> Integer(IF v.e >= 0 THEN v.m * Pow10(v.e)
                                  ELSE SignOf(IntStr(v.m)) * (Abs(v.m) \div Pow10(-v.e)))
      [] v.t = "str" ->
            IF AllDigits(Unsigned(Strip(v.s, Whitespace)))
            THEN Integer(SignOf(Strip(v.s, Whitespace)) * DigitsVal(Unsigned(Strip(v.s, Whitespace))))
            ELSE Raise("ValueError")
      [] OTHER -> Raise("TypeError")

RECURSIVE Normalise(_, _)
Normalise(m, e) ==
    IF m = 0 THEN Float(0, 0)
    ELSE IF m % 10 = 0 THEN Normalise(m \div 10, e + 1)
    ELSE Float(m, e)

\* position of the first character of s that lies in cs, 0 when there is none
Find(s, cs) ==
    IF \E i \in 1..Len(s) : s[i] \in cs
    THEN CHOOSE i \in 1..Len(s) : s[i] \in cs /\ \A k \in 1..(i - 1) : s[k] \notin cs
    ELSE 0

\* the float with integer part ip, fraction fp and exponent text expo
FloatOfParts(sign, ip, fp, expo) ==
    IF /\ ip \o fp # <<>>
       /\ \A i \in 1..Len(ip) : ip[i] \in DigitChars
       /\ \A i \in 1..Len(fp) : fp[i] \in DigitChars
       /\ AllDigits(Unsigned(expo))
    THEN Normalise(sign * DigitsVal(ip \o fp), SignOf(expo) * DigitsVal(Unsigned(expo)) - Len(fp))
    ELSE Raise("ValueError")

\* the mantissa split at its decimal point, at position d if d > 0
FloatOfMantissa(sign, mant, d, expo) ==
    FloatOfParts(sign, IF d = 0 THEN mant ELSE SubSeq(mant, 1, d - 1),
                 IF d = 0 THEN <<>> ELSE SubSeq(mant, d + 1, Len(mant)), expo)

\* the unsigned text split at its exponent mark, at position x if x > 0
FloatOfBody(sign, body, x) ==
    IF x = 0 THEN FloatOfMantissa(sign, body, Find(body, {"."}), <<"0">>)
    ELSE FloatOfMantissa(sign, SubSeq(body, 1, x - 1), Find(SubSeq(body, 1, x - 1), {"."}),
                         SubSeq(body, x + 1, Len(body)))

\* float(x); a text is stripped of whitespace and read by the decimal grammar
\* [sign] (digits [. digits] | . digits) [e [sign] digits]
PyFloat(v) ==
    CASE v.t = "float" -> v
      [] v.t = "int" -> Normalise(v.i, 0)
      [] v.t = "bool" -> Normalise(IF v.b THEN 1 ELSE 0, 0)
      [] v.t = "str" ->
            FloatOfBody(SignOf(Strip(v.s, Whitespace)), Unsigned(Strip(v.s, Whitespace)),
                        Find(Unsigned(Strip(v.s, Whitespace)), {"e", "E"}))
      [] OTHER -> Raise("TypeError")

\* numeric ==, under which 1 == 1.0
NumEq(x, y) ==
    IF x.t \in {"int", "float"} /\ y.t \in {"int", "float"} THEN PyFloat(x) = PyFloat(y) ELSE x = y

RECURSIVE Join(_, _)
\* sep.join(list of character sequences)
Join(sep, l) ==
    IF l = <<>> THEN <<>>
    ELSE IF Len(l) = 1 THEN l[1]
    ELSE l[1] \o sep \o Join(sep, Tail(l))

RECURSIVE Split(_, _)
\* str.split(c) for a one-character separator: always at least one piece
Split(s, c) ==
    IF \E i \in 1..Len(s) : s[i] = c
    THEN LET i == CHOOSE j \in 1..Len(s) : s[j] = c /\ \A k \in 1..(j - 1) : s[k] # c
         IN <<SubSeq(s, 1, i - 1)>> \o Split(SubSeq(s, i + 1, Len(s)), c)
    ELSE <<s>>

----------------------------------------------------------------------------
(* DropdownEnum types: the members in definition order *)

WfmTauValues ==
    << [t |-> "member", name |-> Str(<<"T","A","U","_","5","0","_","M","I","C","R","O">>), value |-> Float(5, -5), description |-> Str(<<"m","o","s","t"," ","r","e","g","i","o","n","s">>)],
       [t |-> "member", name |-> Str(<<"T","A","U","_","7","5","_","M","I","C","R","O">>), value |-> Float(75, -6),
        description |-> Str(<<"A","m","e","r","i","c","a","s"," ","a","n","d"," ","S","o","u","t","h"," ","K","o","r","e","a">>)] >>

AprsBeaconSymbols ==
    << [t |-> "member", name |-> Str(<<"B","E","A","C","O","N","_","R","E","C","E","I","V","E","_","O","N","L","Y">>), value |-> Str(<<"R","&">>),
        description |-> Str(<<"R","e","c","e","i","v","e"," ","o","n","l","y"," ","I","G","a","t","e">>)],
       [t |-> "member", name |-> Str(<<"B","E","A","C","O","N","_","H","F","_","G","A","T","E","W","A","Y">>), value |-> Str(<<"/","&">>), description |-> Str(<<"H","F"," ","G","a","t","e","w","a","y">>)],
       [t |-> "member", name |-> Str(<<"B","E","A","C","O","N","_","I","G","A","T","E","_","G","E","N","E","R","I","C">>), value |-> Str(<<"I","&">>),
        description |-> Str(<<"I","g","a","t","e"," ","G","e","n","e","r","i","c"," ","(","p","l","e","a","s","e"," ","u","s","e"," ","m","o","r","e"," ","s","p","e","c","i","f","i","c"," ","o","v","e","r","l","a","y",")">>)],
       [t |-> "member", name |-> Str(<<"B","E","A","C","O","N","_","P","S","K","M","A","I","L">>), value |-> Str(<<"P","&">>), description |-> Str(<<"P","S","K","m","a","i","l"," ","n","o","d","e">>)],
       [t |-> "member", name |-> Str(<<"B","E","A","C","O","N","_","T","X","_","1">>), value |-> Str(<<"T","&">>),
        description |-> Str(<<"T","X"," ","I","G","a","t","e"," ","w","i","t","h"," ","p","a","t","h"," ","s","e","t"," ","t","o"," ","1"," ","h","o","p">>)],
       [t |-> "member", name |-> Str(<<"B","E","A","C","O","N","_","W","I","R","E","S","_","X">>), value |-> Str(<<"W","&">>), description |-> Str(<<"W","i","r","e","s","-","X">>)],
       [t |-> "member", name |-> Str(<<"B","E","A","C","O","N","_","T","X","_","2">>), value |-> Str(<<"2","&">>),
        description |-> Str(<<"T","X"," ","I","G","a","t","e"," ","w","i","t","h"," ","p","a","t","h"," ","s","e","t"," ","t","o"," ","2"," ","h","o","p","s">>)] >>

AprsAntennaDirections ==
    << [t |-> "member", name |-> Str(<<"D","I","R","E","C","T","I","O","N","_","O","M","N","I">>), value |-> None],
       [t |-> "member", name |-> Str(<<"D","I","R","E","C","T","I","O","N","_","N">>), value |-> Str(<<"N">>)],
       [t |-> "member", name |-> Str(<<"D","I","R","E","C","T","I","O","N","_","N","E">>), value |-> Str(<<"N","E">>)],
       [t |-> "member", name |-> Str(<<"D","I","R","E","C","T","I","O","N","_","E">>), value |-> Str(<<"E">>)],
       [t |-> "member", name |-> Str(<<"D","I","R","E","C","T","I","O","N","_","S","E">>), value |-> Str(<<"S","E">>)],
       [t |-> "member", name |-> Str(<<"D","I","R","E","C","T","I","O","N","_","S">>), value |-> Str(<<"S">>)],
       [t |-> "member", name |-> Str(<<"D","I","R","E","C","T","I","O","N","_","S","W">>), value |-> Str(<<"S","W">>)],
       [t |-> "member", name |-> Str(<<"D","I","R","E","C","T","I","O","N","_","W">>), value |-> Str(<<"W">>)],
       [t |-> "member", name |-> Str(<<"D","I","R","E","C","T","I","O","N","_","N","W">>), value |-> Str(<<"N","W">>)] >>

\* a class object is its name; DropdownEnum itself has no members
EnumClasses == {"DropdownEnum", "WfmTauValues", "AprsBeaconSymbols", "AprsAntennaDirections"}

Members(enumCls) ==
    CASE enumCls = "WfmTauValues" -> WfmTauValues
      [] enumCls = "AprsBeaconSymbols" -> AprsBeaconSymbols
      [] enumCls = "AprsAntennaDirections" -> AprsAntennaDirections
      [] enumCls = "DropdownEnum" -> <<>>

\* the first of the members ms at the positions hit, else the exception exc
Lookup(ms, hit, exc) ==
    IF hit = {} THEN Raise(exc) ELSE ms[CHOOSE i \in hit : \A j \in hit : i <= j]

\* enumCls(value): the first member with that value
EnumByValue(enumCls, value) ==
    Lookup(Members(enumCls),
           {i \in 1..Len(Members(enumCls)) : NumEq(Members(enumCls)[i].value, value)}, "ValueError")

\* enumCls[name]
EnumByName(enumCls, name) ==
    Lookup(Members(enumCls), {i \in 1..Len(Members(enumCls)) : Members(enumCls)[i].name = name}, "KeyError")

\* m.name and m.value of a looked-up member, or the lookup's exception
NameOf(m) == IF IsRaise(m) THEN m ELSE m.name

ValueOf(m) == IF IsRaise(m) THEN m ELSE m.value

WfmTauValues_str(m) ==
    Str(PyStr(PyInt(Normalise(m.value.m, m.value.e + 6))) \o <<"µ","s"," ","(">> \o m.description.s \o <<")">>)

AprsBeaconSymbols_str(m) == Str(m.description.s \o <<" ","(">> \o m.value.s \o <<")">>)

AprsAntennaDirections_str(m) == IF m.value = None THEN Str(<<"o","m","n","i","d","i","r","e","c","t","i","o","n","a","l">>) ELSE m.value

\* str(member), dispatched on the member's class
Member_str(enumCls, m) ==
    CASE enumCls = "WfmTauValues" -> WfmTauValues_str(m)
      [] enumCls = "AprsBeaconSymbols" -> AprsBeaconSymbols_str(m)
      [] enumCls = "AprsAntennaDirections" -> AprsAntennaDirections_str(m)

Option(value, text) == [t |-> "Option", value |-> value, text |-> text]

\* the option carries the member's value instead of its name
toOption_by_value(enumCls, m) == Option(m.value, Member_str(enumCls, m))

toOption(enumCls, m) == Option(m.name, Member_str(enumCls, m))

----------------------------------------------------------------------------
(* Converters *)

NullConverter == [cls |-> "NullConverter"]

OptionalConverter == [cls |-> "OptionalConverter"]

IntConverter == [cls |-> "IntConverter"]

FloatConverter == [cls |-> "FloatConverter"]

ReceiverKeysConverter == [cls |-> "ReceiverKeysConverter"]

Q65ModeConverter == [cls |-> "Q65ModeConverter"]

EnumConverter(enumCls) == [cls |-> "EnumConverter", enumCls |-> enumCls]

NullConverter_convert_to_form(value) == value

NullConverter_convert_from_form(value) == value

OptionalConverter_convert_to_form(value) == IF value = None THEN Str(<<>>) ELSE value

OptionalConverter_convert_from_form(value) == IF Truthy(value) THEN value ELSE None

IntConverter_convert_to_form(value) == Str(PyStr(value))

IntConverter_convert_from_form(value) == PyInt(value)

FloatConverter_convert_to_form(value) == Str(PyStr(value))

FloatConverter_convert_from_form(value) == PyFloat(value)

EnumConverter_convert_to_form(self, value) ==
    IF value = None THEN None ELSE NameOf(EnumByValue(self.enumCls, value))

\* the submitted text is looked up as a value, enumCls(value), instead of as a name
EnumConverter_convert_from_form_by_value(self, value) == ValueOf(EnumByValue(self.enumCls, value))

EnumConverter_convert_from_form(self, value) == ValueOf(EnumByName(self.enumCls, value))

ReceiverKeysConverter_convert_to_form(value) ==
    CASE value.t = "list" ->
            IF \A i \in 1..Len(value.l) : value.l[i].t = "str"
            THEN Str(Join(<<"\n">>, [i \in 1..Len(value.l) |-> value.l[i].s]))
            ELSE Raise("TypeError")
      [] value.t = "str" -> Str(Join(<<"\n">>, [i \in 1..Len(value.s) |-> <<value.s[i]>>]))
      [] value.t \in {"None", "bool", "int", "float"} -> Raise("TypeError")

ReceiverKeysConverter_convert_from_form(value) ==
    CASE value.t = "str" ->
            LET parts == Split(value.s, "\n")
            IN List([i \in 1..Len(parts) |-> Str(Strip(parts[i], {"\r", " "}))])
      [] value.t \in {"None", "bool", "int", "float", "list"} -> Raise("AttributeError")

Q65ModeConverter_convert_to_form(value) == None

Q65ModeConverter_convert_from_form(value) == None

\* self.convert_to_form(value), by the class of self
convert_to_form(self, value) ==
    CASE self.cls = "NullConverter" -> NullConverter_convert_to_form(value)
      [] self.cls = "OptionalConverter" -> OptionalConverter_convert_to_form(value)
      [] self.cls = "IntConverter" -> IntConverter_convert_to_form(value)
      [] self.cls = "FloatConverter" -> FloatConverter_convert_to_form(value)
      [] self.cls = "EnumConverter" -> EnumConverter_convert_to_form(self, value)
      [] self.cls = "ReceiverKeysConverter" -> ReceiverKeysConverter_convert_to_form(value)
      [] self.cls = "Q65ModeConverter" -> Q65ModeConverter_convert_to_form(value)

\* self.convert_from_form(value), by the class of self
convert_from_form(self, value) ==
    CASE self.cls = "NullConverter" -> NullConverter_convert_from_form(value)
      [] self.cls = "OptionalConverter" -> OptionalConverter_convert_from_form(value)
      [] self.cls = "IntConverter" -> IntConverter_convert_from_form(value)
      [] self.cls = "FloatConverter" -> FloatConverter_convert_from_form(value)
      [] self.cls = "EnumConverter" -> EnumConverter_convert_from_form(self, value)
      [] self.cls = "ReceiverKeysConverter" -> ReceiverKeysConverter_convert_from_form(value)
      [] self.cls = "Q65ModeConverter" -> Q65ModeConverter_convert_from_form(value)

----------------------------------------------------------------------------
(* The Converter contract exercised on its own *)

Converters ==
    {NullConverter, OptionalConverter, IntConverter, FloatConverter, ReceiverKeysConverter}
        \cup {EnumConverter(c) : c \in EnumClasses \ {"DropdownEnum"}}

Exponents == {-5, -1, 0, 1}

FloatValues == {Normalise(m, e) : m \in (-MaxMantissa)..MaxMantissa, e \in Exponents}

IntValues == {Integer(i) : i \in (-MaxInt)..MaxInt}

MemberValues(enumCls) == {Members(enumCls)[i].value : i \in 1..Len(Members(enumCls))}

MemberNames(enumCls) == {Members(enumCls)[i].name : i \in 1..Len(Members(enumCls))}

\* entries of a receiver key list; the last three carry a trailing space, a
\* leading carriage return and an embedded newline
KeyTexts == {<<>>, <<"k","1">>, <<"a","-","b">>, <<"k"," ">>, <<"\r","k">>, <<"a","\n","b">>}

CleanKey(s) ==
    /\ \A i \in 1..Len(s) : s[i] # "\n"
    /\ s = <<>> \/ (Head(s) \notin {"\r", " "} /\ s[Len(s)] \notin {"\r", " "})

RECURSIVE SeqsUpTo(_, _)
\* all sequences over S of length at most n
SeqsUpTo(S, n) ==
    IF n = 0 THEN {<<>>}
    ELSE LET shorter == SeqsUpTo(S, n - 1)
         IN shorter \cup {Append(q, x) : q \in shorter, x \in S}

KeyLists == {List(l) : l \in SeqsUpTo({Str(k) : k \in KeyTexts}, MaxKeys)}

\* the domain values a field bound to the converter can hold in the config
ConfigValues(c) ==
    CASE c.cls = "NullConverter" -> {None, Str(<<>>), Str(<<"a","b","c">>), Integer(7)}
      [] c.cls = "OptionalConverter" -> {None, Str(<<>>), Str(<<"a","b","c">>)}
      [] c.cls = "IntConverter" -> {None} \cup IntValues
      [] c.cls = "FloatConverter" -> {None} \cup FloatValues \cup IntValues
      [] c.cls = "EnumConverter" -> {None, Str(<<"X","X">>)} \cup MemberValues(c.enumCls)
      [] c.cls = "ReceiverKeysConverter" -> {None} \cup KeyLists
      [] c.cls = "Q65ModeConverter" -> {None}

\* the same text with every line ending \n turned into \r\n
CrLf(s) == Join(<<"\r","\n">>, Split(s, "\n"))

\* the texts a browser can submit for a field bound to the converter
SubmittedTexts(c) ==
    CASE c.cls = "NullConverter" -> {<<>>, <<"a","b","c">>}
      [] c.cls = "OptionalConverter" -> {<<>>, <<"a","b","c">>}
      [] c.cls = "IntConverter" -> {<<>>, <<"1","2">>, <<"-","3">>, <<" ","4"," ">>, <<"1",".","5">>, <<"o","n">>}
      [] c.cls = "FloatConverter" -> {<<>>, <<"1","2">>, <<"-","0",".","5">>, <<"1",".","5","0">>, <<".","5">>, <<"2",".">>, <<"5","e","-","0","5">>, <<"1","e">>, <<"o","n">>}
      [] c.cls = "EnumConverter" -> {<<>>, <<"X","X">>} \cup {n.s : n \in MemberNames(c.enumCls)}
      [] c.cls = "ReceiverKeysConverter" ->
            LET lf == {Join(<<"\n">>, [i \in 1..Len(k.l) |-> k.l[i].s]) : k \in KeyLists}
            IN lf \cup {CrLf(s) : s \in lf}
      [] c.cls = "Q65ModeConverter" -> {<<"o","n">>}

ConvIdle ==
    /\ conv = NullConverter
    /\ cval = None
    /\ cform = None
    /\ cback = None
    /\ cop = "init"

\* render's half: convert_to_form on a config value (None when the key is absent)
ToForm ==
    \E c \in Converters : \E v \in ConfigValues(c) :
        /\ conv' = c
        /\ cval' = v
        /\ cform' = convert_to_form(c, v)
        /\ cback' = None
        /\ cop' = "to_form"

\* the round trip: convert_from_form on what convert_to_form returned
FromForm ==
    /\ cop = "to_form"
    /\ ~IsRaise(cform)
    /\ cback' = convert_from_form(conv, cform)
    /\ cop' = "round_trip"
    /\ UNCHANGED <<conv, cval, cform>>

\* parse's half: convert_from_form on a submitted text
Submit ==
    \E c \in Converters : \E s \in SubmittedTexts(c) :
        /\ conv' = c
        /\ cval' = None
        /\ cform' = Str(s)
        /\ cback' = convert_from_form(c, Str(s))
        /\ cop' = "from_form"

----------------------------------------------------------------------------
(* Input: construction *)

\* a class object that is no DropdownEnum, e.g. int
Type(name) == [t |-> "type", name |-> name]

defaultConverter(cls) ==
    CASE cls \in {"NumberInput"} -> IntConverter
      [] cls \in {"FloatInput"} -> FloatConverter
      [] OTHER -> NullConverter

\* Input.__init__; cls is the class being instantiated, converter is None when
\* the caller passed none
Input_init(cls, id, label, infotext, converter) ==
    [t |-> "Input", cls |-> cls, id |-> id, label |-> label, infotext |-> infotext,
     converter |-> IF converter = None THEN defaultConverter(cls) ELSE converter]

TextInput_init(id, label, infotext, converter) == Input_init("TextInput", id, label, infotext, converter)

TextAreaInput_init(id, label, infotext, converter) ==
    Input_init("TextAreaInput", id, label, infotext, converter)

LocationInput_init(id, label, infotext, converter) ==
    Input_init("LocationInput", id, label, infotext, converter)

Q65ModeMatrix_init(id, label, infotext, converter) ==
    Input_init("Q65ModeMatrix", id, label, infotext, converter)

NumberInput_init(cls, id, label, infotext, append, converter) ==
    [f \in {"step", "append"} |-> IF f = "step" THEN None ELSE append]
        @@ Input_init(cls, id, label, infotext, converter)

FloatInput_init(id, label, infotext, converter) ==
    [NumberInput_init("FloatInput", id, label, infotext, Str(<<>>), converter)
        EXCEPT !.step = Str(<<"a","n","y">>)]

CheckboxInput_init(id, label, checkboxText, infotext) ==
    [f \in {"checkboxText"} |-> checkboxText] @@ Input_init("CheckboxInput", id, label, infotext, None)

MultiCheckboxInput_init(cls, id, label, options, infotext) ==
    [f \in {"options"} |-> options] @@ Input_init(cls, id, label, infotext, None)

Js8ProfileCheckboxInput_init(id, label, infotext) ==
    MultiCheckboxInput_init("Js8ProfileCheckboxInput", id, label,
        List(<< Option(Str(<<"n","o","r","m","a","l">>), Str(<<"N","o","r","m","a","l"," ","(","1","5","s",","," ","5","0","H","z",","," ","~","1","6","W","P","M",")">>)),
                Option(Str(<<"s","l","o","w">>), Str(<<"S","l","o","w"," ","(","3","0","s",","," ","2","5","H","z",","," ","~","8","W","P","M">>)),
                Option(Str(<<"f","a","s","t">>), Str(<<"F","a","s","t"," ","(","1","0","s",","," ","8","0","H","z",","," ","~","2","4","W","P","M">>)),
                Option(Str(<<"t","u","r","b","o">>), Str(<<"T","u","r","b","o"," ","(","6","s",","," ","1","6","0","H","z",","," ","~","4","0","W","P","M">>)) >>),
        infotext)

\* issubclass(options, DropdownEnum): TypeError unless options is a class
IsSubclassOfDropdownEnum(options) ==
    IF options.t = "type" THEN Bool(options.name \in EnumClasses) ELSE Raise("TypeError")

DropdownInput_init(id, label, options, infotext, converter) ==
    LET check == IsSubclassOfDropdownEnum(options)
        isEnum == IF IsRaise(check) THEN FALSE ELSE check.b
        ms == Members(options.name)
        opts == IF isEnum THEN List([i \in 1..Len(ms) |-> toOption(options.name, ms[i])]) ELSE options
        cv == IF isEnum /\ converter = None THEN EnumConverter(options.name) ELSE converter
    IN [f \in {"options"} |-> opts] @@ Input_init("DropdownInput", id, label, infotext, cv)

----------------------------------------------------------------------------
(* Input: render *)

input_classes(self) ==
    IF self.cls \in {"CheckboxInput", "MultiCheckboxInput", "Js8ProfileCheckboxInput", "Q65ModeMatrix"}
    THEN Join(<<" ">>, <<<<"f","o","r","m","-","c","h","e","c","k">>, <<"f","o","r","m","-","c","o","n","t","r","o","l","-","s","m">>>>)
    ELSE Join(<<" ">>, <<<<"f","o","r","m","-","c","o","n","t","r","o","l">>, <<"f","o","r","m","-","c","o","n","t","r","o","l","-","s","m">>>>)

\* the markup is kept as the structure its template describes: the label, the
\* controls (each with its name and formatted value) and the help text
bootstrap_decorate(self, input) ==
    [t |-> "markup", for |-> PyStr(self.id), label |-> PyStr(self.label), input |-> input,
     infotext |-> IF Truthy(self.infotext) THEN PyStr(self.infotext) ELSE <<>>]

TextInput_render_input(self, value) ==
    List(<< [t |-> "control", tag |-> "input", type |-> "text", classes |-> input_classes(self), name |-> PyStr(self.id),
        placeholder |-> PyStr(self.label), value |-> PyStr(value)] >>)

NumberInput_render_input(self, value) ==
    List(<< [t |-> "control", tag |-> "input", type |-> "number", classes |-> input_classes(self), name |-> PyStr(self.id),
        placeholder |-> PyStr(self.label), value |-> PyStr(value),
        step |-> IF Truthy(self.step) THEN PyStr(self.step) ELSE <<>>,
        append |-> IF Truthy(self.append) THEN PyStr(self.append) ELSE <<>>] >>)

\* "{0}-{1}".format(self.id, k)
SubKey(self, k) == PyStr(self.id) \o <<"-">> \o PyStr(k)

LocationInput_render_sub_input(self, value, id) ==
    CASE value.t \in {"None", "bool", "int", "float", "str"} -> Raise("TypeError")
      [] value.t = "dict" ->
            IF id.s \notin DOMAIN value.d THEN Raise("KeyError")
            ELSE [t |-> "control", tag |-> "input", type |-> "number", classes |-> input_classes(self),
                  name |-> SubKey(self, id), placeholder |-> PyStr(self.label),
                  value |-> PyStr(value.d[id.s]), step |-> <<"a","n","y">>, append |-> <<>>]

\* the first exception a sequence of rendered pieces holds, else the pieces joined
FirstRaise(parts) ==
    IF \E i \in 1..Len(parts) : IsRaise(parts[i])
    THEN parts[CHOOSE i \in 1..Len(parts) : IsRaise(parts[i]) /\ \A j \in 1..(i - 1) : ~IsRaise(parts[j])]
    ELSE List(parts)

LocationInput_render_input(self, value, key) ==
    FirstRaise(<< LocationInput_render_sub_input(self, value, Str(<<"l","a","t">>)),
                  LocationInput_render_sub_input(self, value, Str(<<"l","o","n">>)),
                  [t |-> "control", tag |-> "div", classes |-> <<"c","o","l"," ","m","a","p","-","i","n","p","u","t">>, key |-> PyStr(key),
                   for |-> PyStr(self.id)] >>)

TextAreaInput_render_input(self, value) ==
    List(<< [t |-> "control", tag |-> "textarea", classes |-> input_classes(self), name |-> PyStr(self.id), value |-> PyStr(value)] >>)

CheckboxInput_render_input(self, value) ==
    List(<< [t |-> "control", tag |-> "input", type |-> "checkbox", classes |-> input_classes(self), name |-> PyStr(self.id),
        checked |-> Truthy(value), text |-> PyStr(self.checkboxText)] >>)

MultiCheckboxInput_checkbox_id(self, option) == PyStr(self.id) \o <<"-">> \o PyStr(option.value)

\* x in value, for the container types a list-valued field can hold
Contains(value, x) ==
    CASE value.t = "list" -> Bool(\E i \in 1..Len(value.l) : NumEq(value.l[i], x))
      [] value.t \in {"None", "bool", "int", "float"} -> Raise("TypeError")

\* a checkbox control, or the exception raised while its checked state c was computed
Checkbox(self, name, c, text) ==
    IF IsRaise(c) THEN c
    ELSE [t |-> "control", tag |-> "input", type |-> "checkbox", classes |-> input_classes(self),
          name |-> name, checked |-> c.b, text |-> text]

MultiCheckboxInput_render_checkbox(self, option, value) ==
    Checkbox(self, MultiCheckboxInput_checkbox_id(self, option), Contains(value, option.value),
             PyStr(option.text))

MultiCheckboxInput_render_input(self, value) ==
    FirstRaise([i \in 1..Len(self.options.l) |->
                    MultiCheckboxInput_render_checkbox(self, self.options.l[i], value)])

DropdownInput_render_options(self, value) ==
    IF self.options.t # "list" THEN Raise("TypeError")
    ELSE List([i \in 1..Len(self.options.l) |->
            LET o == self.options.l[i]
            IN [value |-> PyStr(o.value), text |-> PyStr(o.text), selected |-> NumEq(o.value, value)]])

\* the select control around the rendered options
Select(self, options) ==
    IF IsRaise(options) THEN options
    ELSE List(<< [t |-> "control", tag |-> "select", classes |-> input_classes(self),
                  name |-> PyStr(self.id), options |-> options.l] >>)

DropdownInput_render_input(self, value) == Select(self, DropdownInput_render_options(self, value))

\* owrx.wsjt is not part of these sources: a representative Q65Mode
\* enumeration and Q65Profile.availableIntervals
Q65Mode ==
    << [t |-> "member", name |-> Str(<<"A">>), value |-> Integer(1)],
       [t |-> "member", name |-> Str(<<"B">>), value |-> Integer(2)] >>

availableIntervals == <<Integer(15), Integer(30)>>

Q65ModeMatrix_checkbox_id(self, mode, interval) ==
    PyStr(self.id) \o <<"-">> \o PyStr(mode.value) \o <<"-">> \o PyStr(interval)

Q65ModeMatrix_render_checkbox(self, mode, interval, value) ==
    Checkbox(self, Q65ModeMatrix_checkbox_id(self, mode, interval),
             Contains(value, List(<<interval, mode.name>>)),
             <<"M","o","d","e"," ">> \o PyStr(mode.name) \o <<" ","i","n","t","e","r","v","a","l"," ">> \o PyStr(interval) \o <<"s">>)

\* one checkbox per cell, intervals outermost
Q65ModeMatrix_render_input(self, value) ==
    LET nm == Len(Q65Mode)
    IN FirstRaise([i \in 1..(Len(availableIntervals) * nm) |->
            Q65ModeMatrix_render_checkbox(self, Q65Mode[((i - 1) % nm) + 1],
                                          availableIntervals[((i - 1) \div nm) + 1], value)])

\* self.render_input(value), by the class of self; key is the ambient
\* Config.get()["google_maps_api_key"]
render_input(self, value, key) ==
    CASE self.cls = "TextInput" -> TextInput_render_input(self, value)
      [] self.cls \in {"NumberInput", "FloatInput"} -> NumberInput_render_input(self, value)
      [] self.cls = "LocationInput" -> LocationInput_render_input(self, value, key)
      [] self.cls = "TextAreaInput" -> TextAreaInput_render_input(self, value)
      [] self.cls = "CheckboxInput" -> CheckboxInput_render_input(self, value)
      [] self.cls \in {"MultiCheckboxInput", "Js8ProfileCheckboxInput"} ->
            MultiCheckboxInput_render_input(self, value)
      [] self.cls = "DropdownInput" -> DropdownInput_render_input(self, value)
      [] self.cls = "Q65ModeMatrix" -> Q65ModeMatrix_render_input(self, value)

\* bootstrap_decorate around the rendered input, or the exception it raised
Decorated(self, input) == IF IsRaise(input) THEN input ELSE bootstrap_decorate(self, input)

\* the rendering of a converted value, or the exception the conversion raised
Rendered(self, converted, key) ==
    IF IsRaise(converted) THEN converted ELSE Decorated(self, render_input(self, converted, key))

Input_render(self, config, key) ==
    Rendered(self, convert_to_form(self.converter,
                                   IF self.id.s \in DOMAIN config.d THEN config.d[self.id.s] ELSE None),
             key)

----------------------------------------------------------------------------
(* Input: parse *)

\* key in data and data[key][0]
Submitted(data, key) == key \in DOMAIN data.d

First(data, key) == data.d[key].l[1]

\* the update {id: v}, or the exception raised while v was computed
Update(self, v) == IF IsRaise(v) THEN v ELSE Dict(Dict1(self.id.s, v))

\* index -1 in place of 0: the last submitted value wins
Input_parse_last_value(self, data) ==
    IF Submitted(data, self.id.s)
    THEN Update(self, convert_from_form(self.converter, data.d[self.id.s].l[Len(data.d[self.id.s].l)]))
    ELSE Dict(EmptyDict)

\* a missing key is reported as {id: None} instead of as no change
Input_parse_absent_none(self, data) ==
    IF Submitted(data, self.id.s)
    THEN Update(self, convert_from_form(self.converter, First(data, self.id.s)))
    ELSE Dict(Dict1(self.id.s, None))

Input_parse(self, data) ==
    IF Submitted(data, self.id.s)
    THEN Update(self, convert_from_form(self.converter, First(data, self.id.s)))
    ELSE Dict(EmptyDict)

\* float(data[key][0]), or the KeyError of a missing key
FloatItem(data, key) == IF Submitted(data, key) THEN PyFloat(First(data, key)) ELSE Raise("KeyError")

\* the dict comprehension over ["lat", "lon"]: the first exception, else both entries
LatLonOf(lat, lon) ==
    IF IsRaise(lat) THEN lat
    ELSE IF IsRaise(lon) THEN lon
    ELSE Dict(Dict1(<<"l","a","t">>, lat) @@ Dict1(<<"l","o","n">>, lon))

\* int() in place of float()
LocationInput_parse_int(self, data) ==
    Update(self, LatLonOf(IF Submitted(data, SubKey(self, Str(<<"l","a","t">>)))
                          THEN PyInt(First(data, SubKey(self, Str(<<"l","a","t">>)))) ELSE Raise("KeyError"),
                          IF Submitted(data, SubKey(self, Str(<<"l","o","n">>)))
                          THEN PyInt(First(data, SubKey(self, Str(<<"l","o","n">>)))) ELSE Raise("KeyError")))

LocationInput_parse(self, data) ==
    Update(self, LatLonOf(FloatItem(data, SubKey(self, Str(<<"l","a","t">>))),
                          FloatItem(data, SubKey(self, Str(<<"l","o","n">>)))))

\* without the override: an unchecked box reports no change
CheckboxInput_parse_inherited(self, data) ==
    IF Submitted(data, self.id.s)
    THEN Dict(Dict1(self.id.s, Bool(First(data, self.id.s) = Str(<<"o","n">>))))
    ELSE Dict(EmptyDict)

CheckboxInput_parse(self, data) ==
    Dict(Dict1(self.id.s, Bool(Submitted(data, self.id.s) /\ First(data, self.id.s) = Str(<<"o","n">>))))

in_response(self, data, option) ==
    /\ Submitted(data, MultiCheckboxInput_checkbox_id(self, option))
    /\ First(data, MultiCheckboxInput_checkbox_id(self, option)) = Str(<<"o","n">>)

RECURSIVE Checked_reversed(_, _, _)
\* the checked values collected back to front
Checked_reversed(self, data, options) ==
    IF options = <<>> THEN <<>>
    ELSE Checked_reversed(self, data, Tail(options))
            \o (IF in_response(self, data, Head(options)) THEN <<Head(options).value>> ELSE <<>>)

RECURSIVE Checked(_, _, _)
\* [o.value for o in options if in_response(o)]
Checked(self, data, options) ==
    IF options = <<>> THEN <<>>
    ELSE (IF in_response(self, data, Head(options)) THEN <<Head(options).value>> ELSE <<>>)
            \o Checked(self, data, Tail(options))

MultiCheckboxInput_parse(self, data) ==
    Dict(Dict1(self.id.s, List(Checked(self, data, self.options.l))))

\* render_sub_input's sub-field id written back to self.id
render_renaming(self, config, key) ==
    [self |-> IF self.cls = "LocationInput" THEN [self EXCEPT !.id = Str(SubKey(self, Str(<<"l","o","n">>)))] ELSE self,
     arg |-> config, ret |-> Input_render(self, config, key)]

\* a call of self.render(config): the objects as the call leaves them, and
\* what it returns; no statement of render assigns to self or to config
render(self, config, key) == [self |-> self, arg |-> config, ret |-> Input_render(self, config, key)]

\* a call of self.parse(data), by the class of self; no statement of any
\* parse assigns to self or to data
parse(self, data) ==
    [self |-> self, arg |-> data,
     ret |-> CASE self.cls = "LocationInput" -> LocationInput_parse(self, data)
               [] self.cls = "CheckboxInput" -> CheckboxInput_parse(self, data)
               [] self.cls \in {"MultiCheckboxInput", "Js8ProfileCheckboxInput"} ->
                    MultiCheckboxInput_parse(self, data)
               [] OTHER -> Input_parse(self, data)]

----------------------------------------------------------------------------
(* The form schema and its requests *)

Ids == {Str(<<"f">>), Str(<<"f","-","g">>)}

\* a key of some other field of the same form
OtherKey == <<"z","z">>

Label == Str(<<"F","i","e","l","d">>)

OptionValues == {Str(<<"A">>), Str(<<"B">>), Str(<<"C">>)}

Opt(v) == Option(v, Str(<<"c","h","o","i","c","e"," ">> \o v.s))

\* option lists without repeated options
OptionLists ==
    {List(q) : q \in {r \in SeqsUpTo({Opt(v) : v \in OptionValues}, MaxOptions) :
                        \A i, j \in 1..Len(r) : r[i] = r[j] => i = j}}

DropdownArguments ==
    {Type(c) : c \in EnumClasses} \cup
    {Type("int"), None, List(<<>>), List(<<Opt(Str(<<"A">>)), Opt(Str(<<"B">>))>>)}

\* coordinates in steps of 5 units of 10^e, and whole numbers held as int
CoordValues ==
    {Normalise(5 * m, e) : m \in (-MaxCoord)..MaxCoord, e \in {-5, -1, 0}}
        \cup {Integer(i) : i \in (-MaxCoord)..MaxCoord}

\* longitudes paired with every latitude
LonValues == {Float(25, -1), Float(5, -5), Integer(-1)}

LatLon(a, b) == Dict(Dict1(<<"l","a","t">>, a) @@ Dict1(<<"l","o","n">>, b))

Cells == {List(<<availableIntervals[i], Q65Mode[j].name>>) :
            i \in 1..Len(availableIntervals), j \in 1..Len(Q65Mode)}

BaseParseClasses == {"TextInput", "NumberInput", "FloatInput", "TextAreaInput", "DropdownInput"}

\* a sample of the domain values of a field bound to the converter
FieldValues(c) ==
    CASE c.cls = "IntConverter" -> {None, Integer(0), Integer(-MaxInt), Integer(MaxInt)}
      [] c.cls = "FloatConverter" -> {None, Float(15, -1), Float(5, -5), Float(-2, 1), Integer(3)}
      [] c.cls = "ReceiverKeysConverter" ->
            {None, List(<<>>), List(<<Str(<<"k","1">>)>>), List(<<Str(<<"k","1">>), Str(<<"k","2">>)>>)}
      [] OTHER -> ConfigValues(c)

\* a sample of the texts submitted for a field bound to the converter
FieldTexts(c) ==
    CASE c.cls = "ReceiverKeysConverter" -> {<<>>, <<"k","1">>, <<"k","1","\n","k","2">>, <<"k","1","\r","\n","k","2">>}
      [] OTHER -> SubmittedTexts(c)

\* what the config can hold under the field's id
Held(self) ==
    CASE self.cls \in BaseParseClasses -> FieldValues(self.converter)
      [] self.cls = "CheckboxInput" -> {None, Bool(TRUE), Bool(FALSE)}
      [] self.cls \in {"MultiCheckboxInput", "Js8ProfileCheckboxInput"} ->
            {None} \cup {List(q) : q \in SeqsUpTo({self.options.l[i].value : i \in 1..Len(self.options.l)}, 2)}
      [] self.cls = "LocationInput" ->
            {LatLon(a, b) : a \in CoordValues, b \in LonValues} \cup {Dict(Dict1(<<"l","a","t">>, Float(15, -1)))}
      [] self.cls = "Q65ModeMatrix" -> {List(q) : q \in SeqsUpTo(Cells, 2)}

\* the config snapshots a render can be given
Configs(self) ==
    LET own == {Dict(Dict1(self.id.s, v)) : v \in Held(self)}
    IN {Dict(EmptyDict), Dict(Dict1(OtherKey, Str(<<"o","n">>)))} \cup own
        \cup {Dict(c.d @@ Dict1(OtherKey, Str(<<"o","n">>))) : c \in {CHOOSE c \in own : TRUE}}

On == Str(<<"o","n">>)

\* the values submitted under one key: a first value, perhaps a later one
Values(T) == {List(<<x>>) : x \in T} \cup {List(<<x, On>>) : x \in T}

\* form data over the keys K, each key absent or holding one of the lists V
DataOver(K, V) == UNION {{Dict(f) : f \in [S -> V]} : S \in SUBSET K}

CellKeys(self) ==
    {Q65ModeMatrix_checkbox_id(self, Q65Mode[j], availableIntervals[i]) :
        i \in 1..Len(availableIntervals), j \in 1..Len(Q65Mode)}

CoordTexts == {Str(<<"1",".","5">>), Str(<<"-","2">>), Str(<<>>), Str(<<"x">>)}

\* the form data a parse can be given
FormDatas(self) ==
    LET bare == DataOver({self.id.s}, {List(<<On>>)})
        merge(A, B) == {Dict(a.d @@ b.d) : a \in A, b \in B}
    IN CASE self.cls \in BaseParseClasses ->
                merge(DataOver({self.id.s}, Values({Str(s) : s \in FieldTexts(self.converter)})),
                      DataOver({OtherKey}, {List(<<On>>)}))
         [] self.cls = "CheckboxInput" ->
                merge(DataOver({self.id.s}, Values({On, Str(<<"o","f","f">>), Str(<<>>)})),
                      DataOver({OtherKey}, {List(<<On>>)}))
         [] self.cls \in {"MultiCheckboxInput", "Js8ProfileCheckboxInput"} ->
                merge(DataOver({MultiCheckboxInput_checkbox_id(self, self.options.l[i]) :
                                    i \in 1..Len(self.options.l)}, {List(<<On>>), List(<<Str(<<"o","f","f">>), On>>)}),
                      bare)
         [] self.cls = "LocationInput" ->
                merge(DataOver({SubKey(self, Str(<<"l","a","t">>)), SubKey(self, Str(<<"l","o","n">>))},
                               {List(<<x>>) : x \in CoordTexts}),
                      bare)
         [] self.cls = "Q65ModeMatrix" ->
                merge(DataOver(CellKeys(self), {List(<<On>>)}), bare)

\* what a browser submits for a rendered page left as it is: every text,
\* number and textarea control under its name, every checked checkbox as "on",
\* every select as its selected (else its first) option
FormOf(markup) ==
    LET cs == markup.input.l
        sends(c) ==
            CASE c.tag = "input" /\ c.type = "checkbox" -> c.checked
              [] c.tag = "input" -> TRUE
              [] c.tag = "textarea" -> TRUE
              [] c.tag = "select" -> c.options # <<>>
              [] OTHER -> FALSE
        chosen(c) ==
            IF \E i \in 1..Len(c.options) : c.options[i].selected
            THEN c.options[CHOOSE i \in 1..Len(c.options) :
                    c.options[i].selected /\ \A j \in 1..(i - 1) : ~c.options[j].selected].value
            ELSE c.options[1].value
        sent(c) ==
            CASE c.tag = "input" /\ c.type = "checkbox" -> On
              [] c.tag = "select" -> Str(chosen(c))
              [] OTHER -> Str(c.value)
        live == {i \in 1..Len(cs) : sends(cs[i])}
    IN Dict([k \in {cs[i].name : i \in live} |->
                List(<<sent(cs[CHOOSE i \in live : cs[i].name = k])>>)])

Arguments(cls, options, converter) ==
    [t |-> "args", cls |-> cls, options |-> options, converter |-> converter]

Constructed(self, args) ==
    /\ op = "init"
    /\ inp' = self
    /\ made' = self
    /\ given' = args
    /\ arg' = args
    /\ result' = None
    /\ op' = "new"
    /\ UNCHANGED <<page, gkey>>

NewTextInput ==
    \E id \in Ids, infotext \in {None, Str(<<"h","e","l","p">>)}, converter \in {None, OptionalConverter} :
        Constructed(TextInput_init(id, Label, infotext, converter), Arguments("TextInput", None, converter))

NewNumberInput ==
    \E id \in Ids, append \in {Str(<<>>), Str(<<"H","z">>)}, converter \in {None, OptionalConverter} :
        Constructed(NumberInput_init("NumberInput", id, Label, None, append, converter),
                    Arguments("NumberInput", None, converter))

NewFloatInput ==
    \E id \in Ids, converter \in {None} :
        Constructed(FloatInput_init(id, Label, None, converter), Arguments("FloatInput", None, converter))

NewTextAreaInput ==
    \E id \in Ids, converter \in {None, ReceiverKeysConverter} :
        Constructed(TextAreaInput_init(id, Label, Str(<<"h","e","l","p">>), converter),
                    Arguments("TextAreaInput", None, converter))

NewLocationInput ==
    \E id \in Ids, converter \in {None, OptionalConverter} :
        Constructed(LocationInput_init(id, Label, None, converter),
                    Arguments("LocationInput", None, converter))

NewCheckboxInput ==
    \E id \in Ids :
        Constructed(CheckboxInput_init(id, Label, Str(<<"e","n","a","b","l","e">>), None), Arguments("CheckboxInput", None, None))

NewMultiCheckboxInput ==
    \E id \in Ids, options \in OptionLists :
        Constructed(MultiCheckboxInput_init("MultiCheckboxInput", id, Label, options, None),
                    Arguments("MultiCheckboxInput", options, None))

NewJs8ProfileCheckboxInput ==
    \E id \in Ids :
        Constructed(Js8ProfileCheckboxInput_init(id, Label, None),
                    Arguments("Js8ProfileCheckboxInput", None, None))

NewDropdownInput ==
    \E id \in Ids, options \in DropdownArguments,
       converter \in {None, OptionalConverter, EnumConverter("AprsBeaconSymbols")} :
        Constructed(DropdownInput_init(id, Label, options, None, converter),
                    Arguments("DropdownInput", options, converter))

NewQ65ModeMatrix ==
    \E id \in Ids :
        Constructed(Q65ModeMatrix_init(id, Label, None, None), Arguments("Q65ModeMatrix", None, None))

\* the call named name, made with the argument passed, has returned
Returned(name, passed, call) ==
    /\ inp' = call.self
    /\ given' = passed
    /\ arg' = call.arg
    /\ result' = call.ret
    /\ page' = IF name = "render" /\ ~IsRaise(call.ret)
               THEN [t |-> "page", config |-> passed, markup |-> call.ret]
               ELSE None
    /\ op' = name
    /\ UNCHANGED <<made, gkey>>

\* a request that shows the field: inp.render(config)
Render ==
    /\ op # "init"
    /\ \E config \in Configs(inp) : Returned("render", config, render(inp, config, gkey))

\* a request that submits arbitrary form data: inp.parse(data)
Parse ==
    /\ op # "init"
    /\ \E data \in FormDatas(inp) : Returned("parse", data, parse(inp, data))

\* the shown page is submitted as rendered: inp.parse of its controls' values
PostBack ==
    /\ page # None
    /\ Returned("postback", FormOf(page.markup), parse(inp, FormOf(page.markup)))

----------------------------------------------------------------------------
(* Properties of the field variants, checked under Spec *)

Parsing == op \in {"parse", "postback"}

OwnId == inp.id.s

\* C1: an Input that uses the base parse returns {id: convert_from_form(first
\* value under id)} when id is a key of the form data, whatever later values
\* and other keys it holds, and the empty update when id is not a key
C1_BaseParse ==
    (Parsing /\ inp.cls \in BaseParseClasses) =>
        IF OwnId \in DOMAIN given.d
        THEN LET v == convert_from_form(inp.converter, given.d[OwnId].l[1])
             IN IF IsRaise(v) THEN result = v
                ELSE result.t = "dict" /\ DOMAIN result.d = {OwnId} /\ result.d[OwnId] = v
        ELSE result = Dict(EmptyDict)

C1_Witness ==
    /\ op = "parse"
    /\ inp.cls = "NumberInput"
    /\ DOMAIN given.d = {OwnId, OtherKey}
    /\ given.d[OwnId] = List(<<Str(<<"1","2">>), On>>)
    /\ result = Dict(Dict1(OwnId, Integer(12)))

\* C2: CheckboxInput.parse always returns exactly the key id with a boolean,
\* True exactly when id is submitted with first value "on"
C2_Checkbox ==
    (Parsing /\ inp.cls = "CheckboxInput") =>
        /\ result.t = "dict"
        /\ DOMAIN result.d = {OwnId}
        /\ result.d[OwnId] = Bool(OwnId \in DOMAIN given.d /\ given.d[OwnId].l[1] = On)

C2_Witness ==
    /\ op = "parse"
    /\ inp.cls = "CheckboxInput"
    /\ OwnId \notin DOMAIN given.d
    /\ result = Dict(Dict1(OwnId, Bool(FALSE)))

MultiClasses == {"MultiCheckboxInput", "Js8ProfileCheckboxInput"}

\* the declared position of an option value
Declared(v) == CHOOSE i \in 1..Len(inp.options.l) : inp.options.l[i].value = v

BoxOn(o) ==
    LET k == PyStr(inp.id) \o <<"-">> \o PyStr(o.value)
    IN k \in DOMAIN given.d /\ given.d[k].l[1] = On

\* C3: MultiCheckboxInput.parse returns {id: L} where L holds exactly the
\* values of the options whose checkbox key is submitted with first value
\* "on", in declared option order; L is empty when no box is submitted
C3_MultiCheckbox ==
    (Parsing /\ inp.cls \in MultiClasses) =>
        /\ result.t = "dict"
        /\ DOMAIN result.d = {OwnId}
        /\ result.d[OwnId].t = "list"
        /\ LET L == result.d[OwnId].l
           IN /\ {L[i] : i \in 1..Len(L)} =
                    {inp.options.l[i].value : i \in {j \in 1..Len(inp.options.l) : BoxOn(inp.options.l[j])}}
              /\ \A i, j \in 1..Len(L) : i < j => Declared(L[i]) < Declared(L[j])

C3_Witness ==
    /\ op = "parse"
    /\ inp.cls = "MultiCheckboxInput"
    /\ inp.options = List(<<Opt(Str(<<"A">>)), Opt(Str(<<"B">>)), Opt(Str(<<"C">>))>>)
    /\ DOMAIN given.d = {PyStr(inp.id) \o <<"-","B">>, PyStr(inp.id) \o <<"-","A">>}
    /\ result = Dict(Dict1(OwnId, List(<<Str(<<"A">>), Str(<<"B">>)>>)))

\* C6: DropdownInput construction never fails; for a DropdownEnum subclass the
\* options are (member name, str(member)) of every member in definition order
\* and the converter is the supplied one, else an EnumConverter of the type;
\* for any other argument the options are the argument unchanged and the
\* converter is the supplied one, else NullConverter
C6_Dropdown ==
    (op = "new" /\ given.cls = "DropdownInput") =>
        /\ inp.t = "Input"
        /\ IF given.options.t = "type" /\ given.options.name \in EnumClasses
           THEN LET ms == Members(given.options.name)
                IN /\ inp.options =
                        List([i \in 1..Len(ms) |-> Option(ms[i].name, Member_str(given.options.name, ms[i]))])
                   /\ inp.converter =
                        IF given.converter # None THEN given.converter
                        ELSE EnumConverter(given.options.name)
           ELSE /\ inp.options = given.options
                /\ inp.converter = IF given.converter # None THEN given.converter ELSE NullConverter

C6_Witness ==
    /\ op = "new"
    /\ given.cls = "DropdownInput"
    /\ given.options = Type("AprsAntennaDirections")
    /\ given.converter = None
    /\ inp.converter = EnumConverter("AprsAntennaDirections")
    /\ Len(inp.options.l) = 9
    /\ inp.options.l[1] = Option(Str(<<"D","I","R","E","C","T","I","O","N","_","O","M","N","I">>), Str(<<"o","m","n","i","d","i","r","e","c","t","i","o","n","a","l">>))

\* the number inputs of a markup fragment that carry the given name
Named(markup, name) ==
    {i \in 1..Len(markup.input.l) :
        /\ markup.input.l[i].tag = "input"
        /\ markup.input.l[i].type = "number"
        /\ markup.input.l[i].name = name}

LatKey == PyStr(inp.id) \o <<"-","l","a","t">>

LonKey == PyStr(inp.id) \o <<"-","l","o","n">>

\* C7: for a config holding {lat: a, lon: b} under id, render emits the
\* sub-fields "{id}-lat" and "{id}-lon" carrying a and b; parsing the two
\* rendered values returns {id: {lat: a, lon: b}}; parse depends on the two
\* sub-keys only, neither on the key id nor on the converter
C7_LocationRoundTrip ==
    [][ (op' \in {"render", "parse", "postback"} /\ inp.cls = "LocationInput") =>
          /\ (op' = "render" /\ OwnId \in DOMAIN given'.d /\ DOMAIN given'.d[OwnId].d = {<<"l","a","t">>, <<"l","o","n">>}) =>
                /\ result'.t = "markup"
                /\ \E i \in Named(result', LatKey) :
                        result'.input.l[i].value = PyStr(given'.d[OwnId].d[<<"l","a","t">>])
                /\ \E i \in Named(result', LonKey) :
                        result'.input.l[i].value = PyStr(given'.d[OwnId].d[<<"l","o","n">>])
          /\ op' = "postback" =>
                /\ result'.t = "dict"
                /\ DOMAIN result'.d = {OwnId}
                /\ result'.d[OwnId].t = "dict"
                /\ DOMAIN result'.d[OwnId].d = {<<"l","a","t">>, <<"l","o","n">>}
                /\ \A k \in {<<"l","a","t">>, <<"l","o","n">>} : NumEq(result'.d[OwnId].d[k], page.config.d[OwnId].d[k])
          /\ op' = "parse" =>
                result' = LocationInput_parse([inp EXCEPT !.converter = IntConverter],
                            Dict([k \in DOMAIN given'.d \cap {LatKey, LonKey} |-> given'.d[k]]))
      ]_vars

C7_Witness ==
    /\ op = "postback"
    /\ inp.cls = "LocationInput"
    /\ given = Dict(Dict1(LatKey, List(<<Str(<<"1",".","5">>)>>)) @@ Dict1(LonKey, List(<<Str(<<"2",".","5">>)>>)))
    /\ result = Dict(Dict1(OwnId, LatLon(Float(15, -1), Float(25, -1))))

\* C9: no render or parse call changes the Input or the snapshot it was
\* given, and every call returns what the same call returns on the Input as
\* constructed, whatever calls came before
C9_Stateless ==
    (op \in {"render", "parse", "postback"}) =>
        /\ inp = made
        /\ arg = given
        /\ result = IF op = "render" THEN render(made, given, gkey).ret ELSE parse(made, given).ret

C9_Witness ==
    /\ op = "postback"
    /\ inp.cls = "TextInput"
    /\ inp = made
    /\ result = Dict(Dict1(OwnId, Str(<<"a","b","c">>)))

\* C10: Q65ModeMatrix uses the base parse: form data holding only matrix cell
\* keys yields the empty update whichever cells are "on", so parsing the
\* submission of a rendered list of [interval, mode] pairs never returns it
C10_MatrixNotParsed ==
    [][ (op' \in {"parse", "postback"} /\ inp.cls = "Q65ModeMatrix") =>
          /\ OwnId \notin DOMAIN given'.d => result' = Dict(EmptyDict)
          /\ op' = "postback" =>
                /\ DOMAIN given'.d \subseteq CellKeys(inp)
                /\ result' # Dict(Dict1(OwnId, page.config.d[OwnId]))
      ]_vars

C10_Witness ==
    /\ op = "postback"
    /\ inp.cls = "Q65ModeMatrix"
    /\ DOMAIN given.d = {PyStr(inp.id) \o <<"-","1","-","1","5">>, PyStr(inp.id) \o <<"-","2","-","3","0">>}
    /\ result = Dict(EmptyDict)

----------------------------------------------------------------------------
(* Properties of the converters, checked under ConvSpec *)

\* C4: every Converter's convert_to_form accepts None, the value render
\* passes for a field absent from the config, without raising
C4_NoneAccepted == (cop = "to_form" /\ cval = None) => ~IsRaise(cform)

IsMemberValue == conv.cls = "EnumConverter" /\ cval \in MemberValues(conv.enumCls)

\* C5 as stated: for every member m of every DropdownEnum type,
\* convert_from_form(convert_to_form(m.value)) = m.value
C5_EveryMember == (cop = "round_trip" /\ IsMemberValue) => cback = cval

\* C5: the EnumConverter round trip returns m.value for every member whose
\* value is not None; for the member whose value is None convert_to_form
\* returns None and convert_from_form(None) is a lookup failure
C5_RoundTrip ==
    (cop = "round_trip" /\ IsMemberValue) =>
        IF cval = None THEN cform = None /\ cback = Raise("KeyError")
        ELSE cform \in MemberNames(conv.enumCls) /\ cback = cval

C5_Witness ==
    /\ cop = "round_trip"
    /\ conv = EnumConverter("WfmTauValues")
    /\ cval = Float(75, -6)
    /\ cform = Str(<<"T","A","U","_","7","5","_","M","I","C","R","O">>)
    /\ cback = cval

IsCleanKeyList == cval.t = "list" /\ \A i \in 1..Len(cval.l) : CleanKey(cval.l[i].s)

\* C8: ReceiverKeysConverter returns every list of clean keys, the empty list
\* included, from its own form text; and a text with \r\n line ends converts
\* to the same list as the text with \n line ends
C8_ReceiverKeys ==
    /\ (cop = "round_trip" /\ conv = ReceiverKeysConverter /\ IsCleanKeyList) => cback = cval
    /\ (cop = "from_form" /\ conv = ReceiverKeysConverter) =>
            cback = ReceiverKeysConverter_convert_from_form(Str(CrLf(cform.s)))

----------------------------------------------------------------------------
(* Specifications *)

FormIdle ==
    /\ inp = None
    /\ made = None
    /\ given = None
    /\ arg = None
    /\ result = None
    /\ op = "init"
    /\ page = None
    /\ gkey = Str(<<"K","E","Y">>)

ConvInit == FormIdle /\ ConvIdle

ConvNext ==
    \/ ToForm /\ UNCHANGED formVars
    \/ FromForm /\ UNCHANGED formVars
    \/ Submit /\ UNCHANGED formVars

ConvSpec == ConvInit /\ [][ConvNext]_vars

Init == FormIdle /\ ConvIdle

Next ==
    \/ NewTextInput /\ UNCHANGED convVars
    \/ NewNumberInput /\ UNCHANGED convVars
    \/ NewFloatInput /\ UNCHANGED convVars
    \/ NewTextAreaInput /\ UNCHANGED convVars
    \/ NewLocationInput /\ UNCHANGED convVars
    \/ NewCheckboxInput /\ UNCHANGED convVars
    \/ NewMultiCheckboxInput /\ UNCHANGED convVars
    \/ NewJs8ProfileCheckboxInput /\ UNCHANGED convVars
    \/ NewDropdownInput /\ UNCHANGED convVars
    \/ NewQ65ModeMatrix /\ UNCHANGED convVars
    \/ Render /\ UNCHANGED convVars
    \/ Parse /\ UNCHANGED convVars
    \/ PostBack /\ UNCHANGED convVars

Spec == Init /\ [][Next]_vars

====
